---- MODULE Spec2Model ----
(***************************************************************************)
(* A model of genai_validator: the challenger selector, the providers'     *)
(* test-data synthesis, the metrics calculator, the ModelValidator         *)
(* pipeline and the CLI validate command.                                  *)
(*                                                                         *)
(* The program is single-threaded: one call frame is active at a time.     *)
(* External collaborators (the language-model clients, the ragas           *)
(* scorers) are nondeterministic: a model call returns one of Responses    *)
(* or raises; a scorer returns one of ScoreVals.                           *)
(***************************************************************************)
EXTENDS Integers, Sequences, FiniteSets, TLC

VARIABLES
    \* ---- ChallengerSelector (challenger.py)
    sel_given,       \* the task_type argument the selector was built with
    sel_task,        \* self.task_type of the selector, or None before __init__
    sel_result,      \* the last selector call, its arguments and its outcome
    constructed,     \* provider objects the selector has constructed so far
    \* ---- generate_test_data frame (models/azure.py, models/bedrock.py)
    g_pc, g_model, g_input, g_i, g_question, g_out, g_log,
    \* ---- calculate_metrics frame (metrics.py)
    m_pc, m_model, m_data, m_arg, m_metrics, m_k, m_i, m_scores, m_results,
    m_skipped,
    model_calls,     \* model.generate_response calls made in this calculate_metrics call
    scorer_calls,    \* evaluator.score calls made in this calculate_metrics call
    \* ---- ModelValidator (validator.py)
    validator, v_original, v_challenger_arg, v_challenger, v_pc, v_dev,
    v_metrics, test_data,
    original_results, challenger_results, comparison_metrics, v_error,
    calls,           \* the calls validate() has made to its collaborators, in order
    \* ---- CLI validate command (cli.py)
    cli_pc, cli_args,
    \* ---- batch_generate frame (models/azure.py, models/bedrock.py)
    b_pc, b_model, b_prompts, b_arg, b_contexts, b_i, b_responses,
    b_log,           \* generate_response calls that returned, with their responses
    b_result,        \* what the batch_generate call handed to its caller
    \* ---- S3DataExtractor.extract frame (data.py)
    e_pc, e_listing, e_p, e_j, e_out,
    e_reads,         \* keys handed to _read_json_file, in order
    e_failed,        \* keys whose get_object raised ClientError
    e_list_failed    \* TRUE once the paginator raised ClientError

sel_vars == <<sel_given, sel_task, sel_result, constructed>>
g_vars == <<g_pc, g_model, g_input, g_i, g_question, g_out, g_log>>
m_vars == <<m_pc, m_model, m_data, m_arg, m_metrics, m_k, m_i, m_scores, m_results,
            m_skipped, model_calls, scorer_calls>>
v_vars == <<validator, v_original, v_challenger_arg, v_challenger, v_pc, v_dev,
            v_metrics, test_data, original_results,
            challenger_results, comparison_metrics, v_error, calls>>
cli_vars == <<cli_pc, cli_args>>
b_vars == <<b_pc, b_model, b_prompts, b_arg, b_contexts, b_i, b_responses, b_log,
            b_result>>
e_vars == <<e_pc, e_listing, e_p, e_j, e_out, e_reads, e_failed, e_list_failed>>
vars == <<sel_vars, g_vars, m_vars, v_vars, cli_vars, b_vars, e_vars>>

\* Python's None where a string, a list or a field value is expected.
None == <<"NoneType", "None">>

\* ------------------------------------------------------------------ bounds
\* Longest development-data / test-data sequence explored.
MaxItems == 2
\* Longest explicit metric list explored.
MaxMetrics == 2
\* Most (item, metric) evaluations per model in one validate() run.
MaxEvals == 4
\* Most keys the paginator lists under the prefix.
MaxObjects == 3

\* ------------------------------------------------- floats as exact rationals
\* A score is a pair <<n, d>> in lowest terms with d > 0.
RECURSIVE GCD(_, _)
GCD(a, b) == IF b = 0 THEN a ELSE GCD(b, a % b)

Abs(x) == IF x < 0 THEN -x ELSE x

Norm(n, d) ==
    LET g == GCD(Abs(n), Abs(d))
        s == IF d < 0 THEN -1 ELSE 1
    IN  <<(s * n) \div g, (s * d) \div g>>

Zero == <<0, 1>>
RAdd(x, y) == Norm(x[1] * y[2] + y[1] * x[2], x[2] * y[2])
RSub(x, y) == Norm(x[1] * y[2] - y[1] * x[2], x[2] * y[2])
\* x / y for y # 0
RDiv(x, y) == Norm(x[1] * y[2], x[2] * y[1])
RLeq(x, y) == x[1] * y[2] <= y[1] * x[2]
RMul(x, y) == Norm(x[1] * y[1], x[2] * y[2])

RECURSIVE RSum(_)
RSum(s) == IF s = <<>> THEN Zero ELSE RAdd(s[1], RSum(Tail(s)))

\* ---------------------------------------------------------- shared helpers
\* A Python dict: a function whose DOMAIN is the set of keys.
EmptyDict == [x \in {} |-> Zero]
DictSet(d, k, v) == [x \in DOMAIN d \cup {k} |-> IF x = k THEN v ELSE d[x]]

\* Sequences over S of length at most n.
SeqsUpTo(S, n) == UNION {[1..k -> S] : k \in 0..n}

\* The two provider variants (models/azure.py, models/bedrock.py).
Providers == {"azure", "bedrock"}

\* What a language-model call may return; or it raises (ProviderError).
Responses == {"gen_a", "gen_b"}

\* What an external ragas scorer may return for one item.
ScoreVals == {<<0, 1>>, <<4, 5>>, <<22, 25>>}

\* ------------------------------------------------------ MetricsCalculator
\* self.available_metrics, in insertion order.
AvailableMetrics ==
    <<"faithfulness", "context_utilization", "answer_relevancy", "context_recall">>

Registry == {AvailableMetrics[j] : j \in DOMAIN AvailableMetrics}

\* Mutant: the sum is returned undivided.
MeanUndivided(scores) == RSum(scores)

\* return sum(scores) / len(scores) if scores else 0.0
Mean(scores) ==
    IF scores = <<>> THEN Zero ELSE RDiv(RSum(scores), <<Len(scores), 1>>)

\* metrics = list(self.available_metrics.keys()) when metrics is None
EffectiveMetrics(metrics) == IF metrics = None THEN AvailableMetrics ELSE metrics

\* calculate_metrics up to the loop: results = {}
EnterCalculateMetrics(model, data, metrics) ==
    /\ m_pc' = "metric"
    /\ m_model' = model
    /\ m_data' = data
    /\ m_arg' = metrics
    /\ m_metrics' = EffectiveMetrics(metrics)
    /\ m_k' = 1
    /\ m_i' = 1
    /\ m_scores' = <<>>
    /\ m_results' = EmptyDict
    /\ m_skipped' = <<>>
    /\ model_calls' = 0
    /\ scorer_calls' = 0

\* Mutant: the registry check lets every name through.
IsKnownMetricAlways(metric) == TRUE

\* if metric not in self.available_metrics: print warning; continue
IsKnownMetric(metric) == metric \in Registry

CM_SkipUnknown ==
    /\ m_pc = "metric"
    /\ m_k <= Len(m_metrics)
    /\ ~IsKnownMetric(m_metrics[m_k])
    /\ m_skipped' = Append(m_skipped, m_metrics[m_k])
    /\ m_k' = m_k + 1
    /\ UNCHANGED <<m_pc, m_model, m_data, m_arg, m_metrics, m_i, m_scores, m_results,
                   model_calls, scorer_calls>>
    /\ UNCHANGED <<sel_vars, g_vars, v_vars, cli_vars, b_vars, e_vars>>

\* calculator = self.available_metrics[metric]; calculator(model, test_data)
\* enters _calculate_<metric>: scores = []
CM_StartCalculator ==
    /\ m_pc = "metric"
    /\ m_k <= Len(m_metrics)
    /\ IsKnownMetric(m_metrics[m_k])
    /\ m_pc' = "items"
    /\ m_i' = 1
    /\ m_scores' = <<>>
    /\ UNCHANGED <<m_model, m_data, m_arg, m_metrics, m_k, m_results, m_skipped,
                   model_calls, scorer_calls>>
    /\ UNCHANGED <<sel_vars, g_vars, v_vars, cli_vars, b_vars, e_vars>>

\* One iteration of the item loop: answer = model.generate_response(question,
\* context); score = evaluator.score(...); scores.append(score)
CM_ScoreItem ==
    /\ m_pc = "items"
    /\ m_i <= Len(m_data)
    /\ \E answer \in Responses, score \in ScoreVals :
          m_scores' = Append(m_scores, score)
    /\ m_i' = m_i + 1
    /\ model_calls' = model_calls + 1
    /\ scorer_calls' = scorer_calls + 1
    /\ UNCHANGED <<m_pc, m_model, m_data, m_arg, m_metrics, m_k, m_results, m_skipped>>
    /\ UNCHANGED <<sel_vars, g_vars, v_vars, cli_vars, b_vars, e_vars>>

\* model.generate_response raises: nothing catches it in the calculator.
CM_ModelFails ==
    /\ m_pc = "items"
    /\ m_i <= Len(m_data)
    /\ m_pc' = "raised"
    /\ model_calls' = model_calls + 1
    /\ UNCHANGED <<m_model, m_data, m_arg, m_metrics, m_k, m_i, m_scores, m_results,
                   m_skipped, scorer_calls>>
    /\ UNCHANGED <<sel_vars, g_vars, v_vars, cli_vars, b_vars, e_vars>>

\* End of the item loop: the calculator returns the mean (0.0 for no scores)
\* and calculate_metrics stores it: results[metric] = score
CM_FinishCalculator ==
    /\ m_pc = "items"
    /\ m_i > Len(m_data)
    /\ m_results' = DictSet(m_results, m_metrics[m_k], Mean(m_scores))
    /\ m_k' = m_k + 1
    /\ m_pc' = "metric"
    /\ UNCHANGED <<m_model, m_data, m_arg, m_metrics, m_i, m_scores, m_skipped,
                   model_calls, scorer_calls>>
    /\ UNCHANGED <<sel_vars, g_vars, v_vars, cli_vars, b_vars, e_vars>>

\* return results
CM_Return ==
    /\ m_pc = "metric"
    /\ m_k > Len(m_metrics)
    /\ m_pc' = "returned"
    /\ UNCHANGED <<m_model, m_data, m_arg, m_metrics, m_k, m_i, m_scores, m_results,
                   m_skipped, model_calls, scorer_calls>>
    /\ UNCHANGED <<sel_vars, g_vars, v_vars, cli_vars, b_vars, e_vars>>

\* ------------------------------------------- providers: generate_test_data
\* Field values carry their Python type: <<"str", text>> is a string.
Str(s) == <<"str", s>>

\* item.get(field, "")
Get(item, field) == IF field \in DOMAIN item THEN item[field] ELSE Str("")

\* The f-string prompts of generate_test_data, by template and what fills them.
QuestionPrompt(context, original_question) ==
    [template |-> "generate_question", context |-> context, seed |-> original_question]

\* Mutant: the answer prompt is built without the generated question.
AnswerPromptUnseeded(context, new_question) ==
    [template |-> "answer_question", context |-> context, seed |-> Str("")]

AnswerPrompt(context, new_question) ==
    [template |-> "answer_question", context |-> context, seed |-> new_question]

\* _format_prompt of each variant: Azure builds a chat message list (a system
\* message only for a truthy context), Bedrock one text block.
FormatPrompt(model, prompt, context) ==
    [transport |-> IF model.provider = "azure" THEN "chat_messages" ELSE "text_block",
     with_context |-> (context # None /\ context # Str("")),
     context |-> context,
     prompt |-> prompt]

\* Mutant: original_question is filled with the generated question.
TestItemOverwritesOriginal(item, new_question, ground_truth) ==
    [context |-> Get(item, "context"),
     question |-> new_question,
     ground_truth |-> ground_truth,
     original_question |-> new_question,
     original_answer |-> Get(item, "answer")]

\* The dict appended to test_data for one development item.
TestItem(item, new_question, ground_truth) ==
    [context |-> Get(item, "context"),
     question |-> new_question,
     ground_truth |-> ground_truth,
     original_question |-> Get(item, "question"),
     original_answer |-> Get(item, "answer")]

\* generate_test_data up to the loop: test_data = []
EnterGenerateTestData(model, dev) ==
    /\ g_pc' = "loop"
    /\ g_model' = model
    /\ g_input' = dev
    /\ g_i' = 1
    /\ g_question' = None
    /\ g_out' = <<>>
    /\ g_log' = <<>>

\* new_question = self.generate_response(question_prompt)
G_GenerateQuestion ==
    /\ g_pc = "loop"
    /\ g_i <= Len(g_input)
    /\ \E r \in Responses : g_question' = Str(r)
    /\ g_log' = Append(g_log,
          FormatPrompt(g_model,
                       QuestionPrompt(Get(g_input[g_i], "context"),
                                      Get(g_input[g_i], "question")),
                       None))
    /\ g_pc' = "answer"
    /\ UNCHANGED <<g_model, g_input, g_i, g_out>>
    /\ UNCHANGED <<sel_vars, m_vars, v_vars, cli_vars, b_vars, e_vars>>

\* ground_truth = self.generate_response(answer_prompt); test_data.append(...)
G_GenerateAnswer ==
    /\ g_pc = "answer"
    /\ \E r \in Responses :
          g_out' = Append(g_out, TestItem(g_input[g_i], g_question, Str(r)))
    /\ g_log' = Append(g_log,
          FormatPrompt(g_model,
                       AnswerPrompt(Get(g_input[g_i], "context"), g_question),
                       None))
    /\ g_i' = g_i + 1
    /\ g_pc' = "loop"
    /\ UNCHANGED <<g_model, g_input, g_question>>
    /\ UNCHANGED <<sel_vars, m_vars, v_vars, cli_vars, b_vars, e_vars>>

\* Either generate_response call raises: generate_test_data does not catch it.
G_ModelFails ==
    /\ \/ g_pc = "loop" /\ g_i <= Len(g_input)
       \/ g_pc = "answer"
    /\ g_pc' = "raised"
    /\ UNCHANGED <<g_model, g_input, g_i, g_question, g_out, g_log>>
    /\ UNCHANGED <<sel_vars, m_vars, v_vars, cli_vars, b_vars, e_vars>>

\* return test_data
G_Return ==
    /\ g_pc = "loop"
    /\ g_i > Len(g_input)
    /\ g_pc' = "returned"
    /\ UNCHANGED <<g_model, g_input, g_i, g_question, g_out, g_log>>
    /\ UNCHANGED <<sel_vars, m_vars, v_vars, cli_vars, b_vars, e_vars>>

\* ---------------------------------------------- providers: batch_generate
\* The contexts argument: omitted (None) or a list.
NoContexts == [given |-> FALSE, list |-> <<>>]
Contexts(list) == [given |-> TRUE, list |-> list]

\* if contexts is None: contexts = [None] * len(prompts)
EffectiveContexts(prompts, contexts) ==
    IF ~contexts.given THEN [j \in 1..Len(prompts) |-> None] ELSE contexts.list

\* Number of pairs zip(prompts, contexts) yields: it stops at the shorter one.
ZipLen(prompts, contexts) ==
    IF Len(prompts) <= Len(contexts) THEN Len(prompts) ELSE Len(contexts)

NoBatchResult == [kind |-> "none", value |-> <<>>]

\* batch_generate up to the loop: responses = []
EnterBatchGenerate(model, prompts, contexts) ==
    /\ b_pc' = "loop"
    /\ b_model' = model
    /\ b_prompts' = prompts
    /\ b_arg' = contexts
    /\ b_contexts' = EffectiveContexts(prompts, contexts)
    /\ b_i' = 1
    /\ b_responses' = <<>>
    /\ b_log' = <<>>
    /\ b_result' = NoBatchResult

\* response = self.generate_response(prompt, context); responses.append(response)
B_Generate ==
    /\ b_pc = "loop"
    /\ b_i <= ZipLen(b_prompts, b_contexts)
    /\ \E r \in Responses :
          /\ b_responses' = Append(b_responses, Str(r))
          /\ b_log' = Append(b_log,
                [request |-> FormatPrompt(b_model, b_prompts[b_i], b_contexts[b_i]),
                 response |-> Str(r)])
    /\ b_i' = b_i + 1
    /\ UNCHANGED <<b_pc, b_model, b_prompts, b_arg, b_contexts, b_result>>
    /\ UNCHANGED <<sel_vars, g_vars, m_vars, v_vars, cli_vars, e_vars>>

\* generate_response raises: batch_generate does not catch it, the responses
\* gathered so far are lost with its frame.
B_ModelFails ==
    /\ b_pc = "loop"
    /\ b_i <= ZipLen(b_prompts, b_contexts)
    /\ b_pc' = "raised"
    /\ b_result' = [kind |-> "raise", value |-> <<>>]
    /\ UNCHANGED <<b_model, b_prompts, b_arg, b_contexts, b_i, b_responses, b_log>>
    /\ UNCHANGED <<sel_vars, g_vars, m_vars, v_vars, cli_vars, e_vars>>

\* return responses
B_Return ==
    /\ b_pc = "loop"
    /\ b_i > ZipLen(b_prompts, b_contexts)
    /\ b_pc' = "returned"
    /\ b_result' = [kind |-> "return", value |-> b_responses]
    /\ UNCHANGED <<b_model, b_prompts, b_arg, b_contexts, b_i, b_responses, b_log>>
    /\ UNCHANGED <<sel_vars, g_vars, m_vars, v_vars, cli_vars, e_vars>>

\* ----------------------------------------------------- ChallengerSelector
\* A task tag is the tuple of its characters, so that str.lower() is computed.
UpperCase == <<"A", "B", "C", "D", "E", "F", "G", "H", "I", "J", "K", "L", "M",
               "N", "O", "P", "Q", "R", "S", "T", "U", "V", "W", "X", "Y", "Z">>
LowerCase == <<"a", "b", "c", "d", "e", "f", "g", "h", "i", "j", "k", "l", "m",
               "n", "o", "p", "q", "r", "s", "t", "u", "v", "w", "x", "y", "z">>

LowerChar(c) ==
    IF \E j \in DOMAIN UpperCase : UpperCase[j] = c
    THEN LowerCase[CHOOSE j \in DOMAIN UpperCase : UpperCase[j] = c]
    ELSE c

\* task_type.lower()
Lower(tag) == [j \in DOMAIN tag |-> LowerChar(tag[j])]

TagQa == <<"q", "a">>
TagSummarization == <<"s", "u", "m", "m", "a", "r", "i", "z", "a", "t", "i", "o", "n">>
TagReasoning == <<"r", "e", "a", "s", "o", "n", "i", "n", "g">>

\* self.task_models
TaskTags == {TagQa, TagSummarization, TagReasoning}

TaskModels(task) ==
    CASE task = TagQa ->
            [model |-> "gpt-4", provider |-> "azure",
             benchmark_score |-> <<23, 25>>, benchmark_name |-> "SQuAD 2.0"]
      [] task = TagSummarization ->
            [model |-> "anthropic.claude-v2", provider |-> "bedrock",
             benchmark_score |-> <<89, 100>>,
             benchmark_name |-> "ROUGE-L on CNN/DailyMail"]
      [] task = TagReasoning ->
            [model |-> "gpt-4", provider |-> "azure",
             benchmark_score |-> <<9, 10>>, benchmark_name |-> "GSM8K"]

\* A credentials argument: None (given = FALSE) or a dict with these keys.
NoCredentials == [given |-> FALSE, keys |-> {}]
Credentials(keys) == [given |-> TRUE, keys |-> keys]

\* Python truthiness of an Optional[Dict]: None and {} are both falsy.
Truthy(credentials) == credentials.given /\ credentials.keys # {}

Raise(error) == [kind |-> "raise", error |-> error, provider |-> "none", model |-> "none"]
Return(provider, model) ==
    [kind |-> "return", error |-> "none", provider |-> provider, model |-> model]

\* if self.task_type not in self.task_models: raise ValueError(...)
TaskIsKnown(task) == task \in TaskTags

\* Mutant: the credentials check is dropped.
CredentialsNeverMissing(credentials) == FALSE

\* if not azure_credentials / if not bedrock_credentials: raise ValueError(...)
CredentialsMissing(credentials) == ~Truthy(credentials)

\* AzureOpenAIModel(deployment_name=..., api_key=azure_credentials["api_key"],
\*   api_base=azure_credentials["api_base"],
\*   api_version=azure_credentials.get("api_version", ...))
BuildAzure(model, credentials) ==
    IF "api_key" \notin credentials.keys THEN Raise("KeyError: api_key")
    ELSE IF "api_base" \notin credentials.keys THEN Raise("KeyError: api_base")
    ELSE Return("azure", model)

\* BedrockModel(model_id=..., credentials=bedrock_credentials)
BuildBedrock(model, credentials) == Return("bedrock", model)

\* Mutant: the credentials are checked before the task tag is looked up.
GetBestModelCredentialsFirst(task, azure_credentials, bedrock_credentials) ==
    IF CredentialsMissing(azure_credentials) /\ CredentialsMissing(bedrock_credentials)
    THEN Raise("ValueError: Azure credentials required")
    ELSE IF ~TaskIsKnown(task) THEN Raise("ValueError: Unknown task type")
    ELSE IF TaskModels(task).provider = "azure"
    THEN IF CredentialsMissing(azure_credentials)
         THEN Raise("ValueError: Azure credentials required")
         ELSE BuildAzure(TaskModels(task).model, azure_credentials)
    ELSE IF CredentialsMissing(bedrock_credentials)
         THEN Raise("ValueError: AWS credentials required")
         ELSE BuildBedrock(TaskModels(task).model, bedrock_credentials)

\* get_best_model on a selector whose self.task_type is task
GetBestModelOutcome(task, azure_credentials, bedrock_credentials) ==
    IF ~TaskIsKnown(task) THEN Raise("ValueError: Unknown task type")
    ELSE LET model_info == TaskModels(task) IN
         IF model_info.provider = "azure"
         THEN IF CredentialsMissing(azure_credentials)
              THEN Raise("ValueError: Azure credentials required")
              ELSE BuildAzure(model_info.model, azure_credentials)
         ELSE IF model_info.provider = "bedrock"
         THEN IF CredentialsMissing(bedrock_credentials)
              THEN Raise("ValueError: AWS credentials required")
              ELSE BuildBedrock(model_info.model, bedrock_credentials)
         ELSE Raise("ValueError: Unknown provider")

\* get_benchmark_info on a selector whose self.task_type is task
GetBenchmarkInfoOutcome(task) ==
    IF ~TaskIsKnown(task) THEN Raise("ValueError: Unknown task type")
    ELSE Return(TaskModels(task).provider, TaskModels(task).model)

\* ChallengerSelector(task_type)
NewSelector(tag) ==
    /\ sel_task = None
    /\ sel_given' = tag
    /\ sel_task' = Lower(tag)
    /\ UNCHANGED <<sel_result, constructed>>
    /\ UNCHANGED <<g_vars, m_vars, v_vars, cli_vars, b_vars, e_vars>>

\* selector.get_best_model(azure_credentials, bedrock_credentials)
GetBestModel(azure_credentials, bedrock_credentials) ==
    /\ sel_task # None
    /\ LET out == GetBestModelOutcome(sel_task, azure_credentials, bedrock_credentials)
       IN  /\ sel_result' = [call |-> "get_best_model",
                             azure |-> azure_credentials,
                             bedrock |-> bedrock_credentials,
                             out |-> out]
           /\ constructed' = IF out.kind = "return"
                             THEN constructed \cup {out.provider}
                             ELSE constructed
    /\ UNCHANGED <<sel_given, sel_task>>
    /\ UNCHANGED <<g_vars, m_vars, v_vars, cli_vars, b_vars, e_vars>>

\* selector.get_benchmark_info()
GetBenchmarkInfo ==
    /\ sel_task # None
    /\ sel_result' = [call |-> "get_benchmark_info",
                      azure |-> NoCredentials,
                      bedrock |-> NoCredentials,
                      out |-> GetBenchmarkInfoOutcome(sel_task)]
    /\ UNCHANGED <<sel_given, sel_task, constructed>>
    /\ UNCHANGED <<g_vars, m_vars, v_vars, cli_vars, b_vars, e_vars>>

\* --------------------------------------------------------- ModelValidator
\* A model object: the role it plays for the validator and its provider class.
NoModel == [role |-> "none", provider |-> "none"]
Model(role, provider) == [role |-> role, provider |-> provider]

\* metrics = ["faithfulness", "context_utilization", "answer_relevancy"]
DefaultMetrics == <<"faithfulness", "context_utilization", "answer_relevancy">>

ValidateMetrics(metrics) == IF metrics = None THEN DefaultMetrics ELSE metrics

\* Mutant: the default path hands the selector credentials of its own.
ConstructOutcomeWithCredentials(challenger, task_type) ==
    IF challenger # NoModel
    THEN [kind |-> "return", error |-> "none", challenger |-> challenger]
    ELSE LET out == GetBestModelOutcome(Lower(task_type),
                                        Credentials({"api_key", "api_base"}),
                                        Credentials({"access_key", "secret_key"}))
         IN  IF out.kind = "return"
             THEN [kind |-> "return", error |-> "none",
                   challenger |-> Model("challenger", out.provider)]
             ELSE [kind |-> "raise", error |-> out.error, challenger |-> NoModel]

\* __init__: with no challenger_model, ChallengerSelector(task_type) is built
\* and get_best_model() is called with no arguments.
ConstructOutcome(challenger, task_type) ==
    IF challenger # NoModel
    THEN [kind |-> "return", error |-> "none", challenger |-> challenger]
    ELSE LET out == GetBestModelOutcome(Lower(task_type), NoCredentials, NoCredentials)
         IN  IF out.kind = "return"
             THEN [kind |-> "return", error |-> "none",
                   challenger |-> Model("challenger", out.provider)]
             ELSE [kind |-> "raise", error |-> out.error, challenger |-> NoModel]

\* Mutant: the improvement is taken relative to the challenger's score.
ComparisonEntryOverChallenger(orig_value, chall_value) ==
    [difference |-> RSub(chall_value, orig_value),
     relative_improvement |-> RDiv(RSub(chall_value, orig_value), chall_value)]

\* One entry of comparison_metrics.
ComparisonEntry(orig_value, chall_value) ==
    [difference |-> RSub(chall_value, orig_value),
     relative_improvement |-> RDiv(RSub(chall_value, orig_value), orig_value)]

\* The comparison loop of validate(): a missing key raises KeyError, a zero
\* original score raises ZeroDivisionError, at the first metric where it occurs.
RECURSIVE CompareLoop(_, _, _, _, _)
CompareLoop(metrics, k, orig, chall, acc) ==
    IF k > Len(metrics) THEN [kind |-> "return", error |-> "none", value |-> acc]
    ELSE LET metric == metrics[k] IN
         IF metric \notin DOMAIN orig \/ metric \notin DOMAIN chall
         THEN [kind |-> "raise", error |-> "KeyError", value |-> acc]
         ELSE IF orig[metric] = Zero
         THEN [kind |-> "raise", error |-> "ZeroDivisionError", value |-> acc]
         ELSE CompareLoop(metrics, k + 1, orig, chall,
                          DictSet(acc, metric,
                                  ComparisonEntry(orig[metric], chall[metric])))

Compare(metrics, orig, chall) == CompareLoop(metrics, 1, orig, chall, EmptyDict)

\* ModelValidator(original_model, challenger_model, task_type)
V_Construct(original, challenger, task_type) ==
    /\ validator = "none"
    /\ cli_pc = "idle"
    /\ LET out == ConstructOutcome(challenger, task_type) IN
       /\ validator' = IF out.kind = "return" THEN "constructed" ELSE "construct_failed"
       /\ v_error' = out.error
       /\ v_challenger' = out.challenger
    /\ v_challenger_arg' = challenger
    /\ v_original' = original
    /\ UNCHANGED <<v_pc, v_dev, v_metrics, test_data, original_results,
                   challenger_results, comparison_metrics, calls>>
    /\ UNCHANGED <<sel_vars, g_vars, m_vars, cli_vars, b_vars, e_vars>>

\* validate() up to and into self.challenger_model.generate_test_data(...)
V_Validate(dev, metrics) ==
    /\ validator = "constructed"
    /\ v_pc = "idle"
    /\ cli_pc \in {"idle", "validating"}
    /\ v_pc' = "synthesis"
    /\ v_dev' = dev
    /\ v_metrics' = ValidateMetrics(metrics)
    /\ EnterGenerateTestData(v_challenger, dev)
    /\ calls' = Append(calls, [call |-> "generate_test_data", model |-> v_challenger,
                               data |-> dev, metrics |-> None])
    /\ UNCHANGED <<validator, v_original, v_challenger_arg, v_challenger,
                   test_data, original_results,
                   challenger_results, comparison_metrics, v_error>>
    /\ UNCHANGED <<sel_vars, m_vars, cli_vars, b_vars, e_vars>>

\* Mutant: the original model is scored on a different test set (one item short).
ScoringDataDropsLast(generated) == SubSeq(generated, 1, Len(generated) - 1)

\* test_data = <returned>; then into calculate_metrics(model=self.original_model, ...)
ScoringData(generated) == generated

V_ScoreOriginal ==
    /\ v_pc = "synthesis"
    /\ g_pc = "returned"
    /\ test_data' = g_out
    /\ v_pc' = "score_original"
    /\ EnterCalculateMetrics(v_original, ScoringData(g_out), v_metrics)
    /\ calls' = Append(calls, [call |-> "calculate_metrics", model |-> v_original,
                               data |-> ScoringData(g_out), metrics |-> v_metrics])
    /\ UNCHANGED <<validator, v_original, v_challenger_arg, v_challenger,
                   v_dev, v_metrics,
                   original_results, challenger_results, comparison_metrics, v_error>>
    /\ UNCHANGED <<sel_vars, g_vars, cli_vars, b_vars, e_vars>>

\* original_results = <returned>; then into
\* calculate_metrics(model=self.challenger_model, ...)
V_ScoreChallenger ==
    /\ v_pc = "score_original"
    /\ m_pc = "returned"
    /\ original_results' = m_results
    /\ v_pc' = "score_challenger"
    /\ EnterCalculateMetrics(v_challenger, test_data, v_metrics)
    /\ calls' = Append(calls, [call |-> "calculate_metrics", model |-> v_challenger,
                               data |-> test_data, metrics |-> v_metrics])
    /\ UNCHANGED <<validator, v_original, v_challenger_arg, v_challenger,
                   v_dev, v_metrics, test_data,
                   challenger_results, comparison_metrics, v_error>>
    /\ UNCHANGED <<sel_vars, g_vars, cli_vars, b_vars, e_vars>>

\* challenger_results = <returned>; the comparison loop; return ValidationResults
V_Compare ==
    /\ v_pc = "score_challenger"
    /\ m_pc = "returned"
    /\ challenger_results' = m_results
    /\ LET out == Compare(v_metrics, original_results, m_results) IN
       /\ v_pc' = IF out.kind = "return" THEN "returned" ELSE "raised"
       /\ v_error' = out.error
       /\ comparison_metrics' = IF out.kind = "return" THEN out.value
                                 ELSE comparison_metrics
    /\ UNCHANGED <<validator, v_original, v_challenger_arg, v_challenger,
                   v_dev, v_metrics, test_data,
                   original_results, calls>>
    /\ UNCHANGED <<sel_vars, g_vars, m_vars, cli_vars, b_vars, e_vars>>

\* Mutant: validate() catches a failed synthesis call and issues it again.
V_PropagateRetries ==
    /\ v_pc = "synthesis"
    /\ g_pc = "raised"
    /\ g_pc' = "loop"
    /\ UNCHANGED <<g_model, g_input, g_i, g_question, g_out, g_log>>
    /\ UNCHANGED <<sel_vars, m_vars, v_vars, cli_vars, b_vars, e_vars>>

\* An exception of a model call leaves validate() uncaught.
V_Propagate ==
    /\ \/ v_pc = "synthesis" /\ g_pc = "raised"
       \/ v_pc \in {"score_original", "score_challenger"} /\ m_pc = "raised"
    /\ v_pc' = "raised"
    /\ v_error' = "ProviderError"
    /\ UNCHANGED <<validator, v_original, v_challenger_arg, v_challenger,
                   v_dev, v_metrics, test_data,
                   original_results, challenger_results, comparison_metrics, calls>>
    /\ UNCHANGED <<sel_vars, g_vars, m_vars, cli_vars, b_vars, e_vars>>

\* ------------------------------------------------------ CLI validate command
\* The command up to "Initialize original model": credentials are loaded, the
\* extractor and the original model are built; an azure original model with no
\* azure credentials file is a click.UsageError.
Cli_Invoke(task_type, original_model_provider, azure_credentials_given) ==
    /\ cli_pc = "idle"
    /\ validator = "none"
    /\ cli_args' = [task_type |-> task_type,
                    original |-> Model("original", original_model_provider)]
    /\ cli_pc' = IF original_model_provider = "azure" /\ ~azure_credentials_given
                 THEN "usage_error"
                 ELSE "original_ready"
    /\ UNCHANGED <<sel_vars, g_vars, m_vars, v_vars, b_vars, e_vars>>

\* The rest of the command, one statement group at a time:
\*   original_ready: validator = ModelValidator(original_model, task_type)
\*   extracting:     development_data = data_extractor.extract(); parse metrics
\*   validating:     validator.validate(...) has returned; echo the report
Cli_Step ==
    /\ \/ cli_pc \in {"original_ready", "extracting"}
       \/ cli_pc = "validating" /\ v_pc = "returned"
    /\ IF cli_pc = "original_ready"
       THEN LET out == ConstructOutcome(NoModel, cli_args.task_type) IN
            /\ validator' = IF out.kind = "return" THEN "constructed"
                            ELSE "construct_failed"
            /\ v_error' = out.error
            /\ v_challenger' = out.challenger
            /\ v_challenger_arg' = NoModel
            /\ v_original' = cli_args.original
            /\ cli_pc' = IF out.kind = "return" THEN "extracting" ELSE "failed"
       ELSE /\ cli_pc' = IF cli_pc = "extracting" THEN "validating" ELSE "reported"
            /\ UNCHANGED <<validator, v_error, v_challenger_arg, v_challenger,
                           v_original>>
    /\ UNCHANGED <<v_pc, v_dev, v_metrics, test_data, original_results,
                   challenger_results, comparison_metrics, calls, cli_args>>
    /\ UNCHANGED <<sel_vars, g_vars, m_vars, b_vars, e_vars>>

\* -------------------------------------------------------- S3DataExtractor
\* An object key is the tuple of its characters, so that str.endswith is computed.
JsonSuffix == <<".", "j", "s", "o", "n">>

\* key.endswith(suffix)
EndsWith(key, suffix) ==
    /\ Len(key) >= Len(suffix)
    /\ SubSeq(key, Len(key) - Len(suffix) + 1, Len(key)) = suffix

\* Mutant: the suffix filter lets every key through.
IsJsonKeyAlways(key) == TRUE

\* if not key.endswith(".json"): continue
IsJsonKey(key) == EndsWith(key, JsonSuffix)

\* What json.loads returned: a list of records or a single value.
JsonList(records) == [kind |-> "list", value |-> records]
JsonDict(record) == [kind |-> "dict", value |-> record]
\* Content that json.loads rejects (JSONDecodeError).
JsonInvalid == [kind |-> "invalid", value |-> <<>>]

\* The {} that _read_json_file returns when get_object raises ClientError.
EmptyRecord == [x \in {} |-> Str("")]

\* isinstance(data, list): development_data.extend(data)
\* else:                   development_data.append(data)
Contribution(data) == IF data.kind = "list" THEN data.value ELSE <<data.value>>

\* extract() up to the page loop: development_data = []
\* listing is what the paginator will yield; content maps a key to what
\* json.loads makes of the object's body.
EnterExtract(listing) ==
    /\ e_pc' = "paging"
    /\ e_listing' = listing
    /\ e_p' = 1
    /\ e_j' = 1
    /\ e_out' = <<>>
    /\ e_reads' = <<>>
    /\ e_failed' = {}
    /\ e_list_failed' = FALSE

\* for page in page_iterator: if "Contents" not in page: continue
E_NextPage ==
    /\ e_pc = "paging"
    /\ e_p <= Len(e_listing)
    /\ IF e_listing[e_p].has_contents
       THEN e_pc' = "objects" /\ e_j' = 1 /\ e_p' = e_p
       ELSE e_pc' = "paging" /\ e_j' = e_j /\ e_p' = e_p + 1
    /\ UNCHANGED <<e_listing, e_out, e_reads, e_failed, e_list_failed>>
    /\ UNCHANGED <<sel_vars, g_vars, m_vars, v_vars, cli_vars, b_vars>>

\* The paginator raises ClientError when it fetches a page: the outer except
\* prints it and extract() returns what it gathered so far.
E_ListFails ==
    /\ e_pc = "paging"
    /\ e_p <= Len(e_listing)
    /\ e_pc' = "returned"
    /\ e_list_failed' = TRUE
    /\ UNCHANGED <<e_listing, e_p, e_j, e_out, e_reads, e_failed>>
    /\ UNCHANGED <<sel_vars, g_vars, m_vars, v_vars, cli_vars, b_vars>>

\* key = obj["Key"]; not a .json key: continue
E_SkipObject ==
    /\ e_pc = "objects"
    /\ e_j <= Len(e_listing[e_p].contents)
    /\ ~IsJsonKey(e_listing[e_p].contents[e_j])
    /\ e_j' = e_j + 1
    /\ UNCHANGED <<e_pc, e_listing, e_p, e_out, e_reads, e_failed, e_list_failed>>
    /\ UNCHANGED <<sel_vars, g_vars, m_vars, v_vars, cli_vars, b_vars>>

\* data = self._read_json_file(key) returned the parsed body; extend or append
E_ReadObject(content) ==
    /\ e_pc = "objects"
    /\ e_j <= Len(e_listing[e_p].contents)
    /\ LET key == e_listing[e_p].contents[e_j] IN
       /\ IsJsonKey(key)
       /\ content[key].kind # "invalid"
       /\ e_out' = e_out \o Contribution(content[key])
       /\ e_reads' = Append(e_reads, key)
    /\ e_j' = e_j + 1
    /\ UNCHANGED <<e_pc, e_listing, e_p, e_failed, e_list_failed>>
    /\ UNCHANGED <<sel_vars, g_vars, m_vars, v_vars, cli_vars, b_vars>>

\* get_object raises ClientError: _read_json_file prints it and returns {},
\* which is not a list: development_data.append({})
E_ReadFails ==
    /\ e_pc = "objects"
    /\ e_j <= Len(e_listing[e_p].contents)
    /\ LET key == e_listing[e_p].contents[e_j] IN
       /\ IsJsonKey(key)
       /\ e_out' = e_out \o Contribution(JsonDict(EmptyRecord))
       /\ e_reads' = Append(e_reads, key)
       /\ e_failed' = e_failed \cup {key}
    /\ e_j' = e_j + 1
    /\ UNCHANGED <<e_pc, e_listing, e_p, e_list_failed>>
    /\ UNCHANGED <<sel_vars, g_vars, m_vars, v_vars, cli_vars, b_vars>>

\* json.loads raises JSONDecodeError, which neither except clause catches.
E_ParseFails(content) ==
    /\ e_pc = "objects"
    /\ e_j <= Len(e_listing[e_p].contents)
    /\ LET key == e_listing[e_p].contents[e_j] IN
       /\ IsJsonKey(key)
       /\ content[key].kind = "invalid"
       /\ e_reads' = Append(e_reads, key)
    /\ e_pc' = "raised"
    /\ UNCHANGED <<e_listing, e_p, e_j, e_out, e_failed, e_list_failed>>
    /\ UNCHANGED <<sel_vars, g_vars, m_vars, v_vars, cli_vars, b_vars>>

\* End of for obj in page["Contents"]: on to the next page.
E_EndPage ==
    /\ e_pc = "objects"
    /\ e_j > Len(e_listing[e_p].contents)
    /\ e_pc' = "paging"
    /\ e_p' = e_p + 1
    /\ UNCHANGED <<e_listing, e_j, e_out, e_reads, e_failed, e_list_failed>>
    /\ UNCHANGED <<sel_vars, g_vars, m_vars, v_vars, cli_vars, b_vars>>

\* return development_data
E_Return ==
    /\ e_pc = "paging"
    /\ e_p > Len(e_listing)
    /\ e_pc' = "returned"
    /\ UNCHANGED <<e_listing, e_p, e_j, e_out, e_reads, e_failed, e_list_failed>>
    /\ UNCHANGED <<sel_vars, g_vars, m_vars, v_vars, cli_vars, b_vars>>

\* validate_data_format(data): every item has the three required fields and
\* each of them is a str. No caller in the package invokes it.
RequiredFields == {"context", "question", "answer"}

ValidateDataFormat(data) ==
    \A j \in DOMAIN data :
        /\ RequiredFields \subseteq DOMAIN data[j]
        /\ \A field \in RequiredFields : data[j][field][1] = "str"

\* ------------------------------------------------------------------ inputs
Text(prefix, j) == prefix \o ToString(j)

\* A well-formed development example.
DevExample(j) ==
    [context |-> Str(Text("context", j)), question |-> Str(Text("question", j)),
     answer |-> Str(Text("answer", j))]

\* Records as extract() may deliver them: well-formed, lacking a field, empty
\* (the fallback of a failed read) or with a non-string field.
DevRecordInputs ==
    {DevExample(1), DevExample(2),
     [context |-> Str("context1"), answer |-> Str("answer1")],
     [x \in {} |-> Str("")],
     [context |-> Str("context1"), question |-> Str("question1"),
      answer |-> <<"int", "7">>]}

DevSequence(n) == [j \in 1..n |-> DevExample(j)]

TestSequence(n) ==
    [j \in 1..n |-> TestItem(DevExample(j), Str("gen_a"), Str("gen_b"))]

TaskTagInputs ==
    {TagQa, <<"Q", "A">>, <<"Q", "a">>,
     TagSummarization,
     <<"S", "u", "m", "m", "a", "r", "i", "z", "a", "t", "i", "o", "n">>,
     TagReasoning,
     <<"t", "r", "a", "n", "s", "l", "a", "t", "i", "o", "n">>,
     <<>>}

AzureCredentialInputs ==
    {NoCredentials} \cup
    {Credentials(K) : K \in SUBSET {"api_key", "api_base", "api_version"}}

BedrockCredentialInputs ==
    {NoCredentials} \cup {Credentials(K) : K \in SUBSET {"access_key", "secret_key"}}

\* (original_model, challenger_model) pairs a user builds a validator from: an
\* explicit challenger of the other provider class, or none.
ValidatorConfigs ==
    {<<Model("original", "bedrock"), Model("challenger", "azure")>>,
     <<Model("original", "azure"), Model("challenger", "bedrock")>>,
     <<Model("original", "bedrock"), NoModel>>,
     <<Model("original", "azure"), NoModel>>}

\* Metric names handed to calculate_metrics directly / to validate().
CalcMetricNames == Registry \cup {"bogus"}
ValidateMetricNames == {"faithfulness", "bogus"}

\* Prompts and contexts handed to batch_generate.
PromptInputs == {Str("prompt1"), Str("prompt2")}
ContextInputs == {None, Str("ctx")}

ContextsInputs ==
    {NoContexts} \cup {Contexts(c) : c \in SeqsUpTo(ContextInputs, MaxItems)}

\* The bucket explored: keys under the prefix and what json.loads makes of each
\* body. a.json holds one record, b.json a list of two (one equal to a.json's),
\* m.json one record without a question, x.json is not valid JSON; n.txt and
\* c.jsonl do not end in .json.
KeyA == <<"a", ".", "j", "s", "o", "n">>
KeyB == <<"b", ".", "j", "s", "o", "n">>
KeyM == <<"m", ".", "j", "s", "o", "n">>
KeyX == <<"x", ".", "j", "s", "o", "n">>
KeyN == <<"n", ".", "t", "x", "t">>
KeyL == <<"c", ".", "j", "s", "o", "n", "l">>

StoreKeys == {KeyA, KeyB, KeyM, KeyX, KeyN, KeyL}

RecordWithoutQuestion == [context |-> Str("context1"), answer |-> Str("answer1")]

StoreContent ==
    [key \in StoreKeys |->
        CASE key = KeyA -> JsonDict(DevExample(1))
          [] key = KeyB -> JsonList(<<DevExample(2), DevExample(1)>>)
          [] key = KeyM -> JsonDict(RecordWithoutQuestion)
          [] key = KeyX -> JsonInvalid
          [] key = KeyN -> JsonDict(DevExample(2))
          [] key = KeyL -> JsonList(<<DevExample(1)>>)]

\* The keys of the bucket the pipeline is run on.
PipelineKeys == {KeyM, KeyN}

\* One page of list_objects_v2: S3 leaves "Contents" out of a page without keys.
Page(keys) == [has_contents |-> keys # <<>>, contents |-> keys]

\* Every order of up to n of the keys, each key listed once.
KeyOrders(keys, n) ==
    {s \in SeqsUpTo(keys, n) : \A i, j \in DOMAIN s : i # j => s[i] # s[j]}

\* Every way the paginator may deliver an order: on one page, or cut in two.
Listings(keys, n) ==
    UNION {{<<Page(s)>>} \cup
           {<<Page(SubSeq(s, 1, c)), Page(SubSeq(s, c + 1, Len(s)))>> : c \in 0..Len(s)}
           : s \in KeyOrders(keys, n)}

\* ------------------------------------------------------------------- specs
Init ==
    /\ sel_given = None /\ sel_task = None
    /\ sel_result = [call |-> "none", azure |-> NoCredentials,
                     bedrock |-> NoCredentials, out |-> Raise("none")]
    /\ constructed = {}
    /\ g_pc = "idle" /\ g_model = NoModel /\ g_input = <<>> /\ g_i = 1
    /\ g_question = None /\ g_out = <<>> /\ g_log = <<>>
    /\ m_pc = "idle" /\ m_model = NoModel /\ m_data = <<>> /\ m_arg = None
    /\ m_metrics = <<>>
    /\ m_k = 1 /\ m_i = 1 /\ m_scores = <<>> /\ m_results = EmptyDict
    /\ m_skipped = <<>> /\ model_calls = 0 /\ scorer_calls = 0
    /\ validator = "none" /\ v_original = NoModel /\ v_challenger_arg = NoModel
    /\ v_challenger = NoModel
    /\ v_pc = "idle" /\ v_dev = <<>> /\ v_metrics = <<>> /\ test_data = <<>>
    /\ original_results = EmptyDict /\ challenger_results = EmptyDict
    /\ comparison_metrics = EmptyDict /\ v_error = "none" /\ calls = <<>>
    /\ cli_pc = "idle"
    /\ cli_args = [task_type |-> None, original |-> NoModel]
    /\ b_pc = "idle" /\ b_model = NoModel /\ b_prompts = <<>> /\ b_arg = NoContexts
    /\ b_contexts = <<>> /\ b_i = 1 /\ b_responses = <<>> /\ b_log = <<>>
    /\ b_result = NoBatchResult
    /\ e_pc = "idle" /\ e_listing = <<>> /\ e_p = 1 /\ e_j = 1 /\ e_out = <<>>
    /\ e_reads = <<>> /\ e_failed = {} /\ e_list_failed = FALSE

\* A run of the program enters through one of its entry points: a library user
\* of ModelValidator, the CLI command, or a caller of a provider's
\* batch_generate.
UserConstruct ==
    /\ b_pc = "idle"
    /\ \E config \in ValidatorConfigs, task_type \in TaskTagInputs :
          V_Construct(config[1], config[2], task_type)

UserValidate ==
    \E n \in 0..MaxItems,
       metrics \in {None} \cup SeqsUpTo(ValidateMetricNames, MaxMetrics) :
        /\ n * Len(ValidateMetrics(metrics)) <= MaxEvals
        /\ V_Validate(DevSequence(n), metrics)

CliInvoke ==
    /\ b_pc = "idle"
    /\ \E task_type \in TaskTags, provider \in Providers, given \in BOOLEAN :
          Cli_Invoke(task_type, provider, given)

\* batch_generate called directly on either provider variant.
BatchGenerateCall ==
    /\ b_pc = "idle"
    /\ validator = "none"
    /\ cli_pc = "idle"
    /\ \E provider \in Providers, prompts \in SeqsUpTo(PromptInputs, MaxItems),
          contexts \in ContextsInputs :
        EnterBatchGenerate(Model("original", provider), prompts, contexts)
    /\ UNCHANGED <<sel_vars, g_vars, m_vars, v_vars, cli_vars, e_vars>>

Next ==
    \/ UserConstruct
    \/ UserValidate
    \/ V_ScoreOriginal
    \/ V_ScoreChallenger
    \/ V_Compare
    \/ V_Propagate
    \/ G_GenerateQuestion
    \/ G_GenerateAnswer
    \/ G_ModelFails
    \/ G_Return
    \/ CM_SkipUnknown
    \/ CM_StartCalculator
    \/ CM_ScoreItem
    \/ CM_ModelFails
    \/ CM_FinishCalculator
    \/ CM_Return
    \/ CliInvoke
    \/ Cli_Step
    \/ BatchGenerateCall
    \/ B_Generate
    \/ B_ModelFails
    \/ B_Return

Spec == Init /\ [][Next]_vars

\* The selector on its own.
SelectorNew == \E tag \in TaskTagInputs : NewSelector(tag)

SelectorGetBestModel ==
    \E a \in AzureCredentialInputs, b \in BedrockCredentialInputs : GetBestModel(a, b)

NextSelector ==
    \/ SelectorNew
    \/ SelectorGetBestModel
    \/ GetBenchmarkInfo

SpecSelector == Init /\ [][NextSelector]_vars

\* calculate_metrics called directly.
CalculateMetricsCall ==
    /\ m_pc = "idle"
    /\ \E provider \in Providers, n \in 0..MaxItems,
          metrics \in {None} \cup SeqsUpTo(CalcMetricNames, MaxMetrics) :
        EnterCalculateMetrics(Model("original", provider), TestSequence(n), metrics)
    /\ UNCHANGED <<sel_vars, g_vars, v_vars, cli_vars, b_vars, e_vars>>

NextMetrics ==
    \/ CalculateMetricsCall
    \/ CM_SkipUnknown
    \/ CM_StartCalculator
    \/ CM_ScoreItem
    \/ CM_ModelFails
    \/ CM_FinishCalculator
    \/ CM_Return

SpecMetrics == Init /\ [][NextMetrics]_vars

\* generate_test_data called directly on either provider variant.
GenerateTestDataCall ==
    /\ g_pc = "idle"
    /\ \E provider \in Providers, dev \in SeqsUpTo(DevRecordInputs, MaxItems) :
        EnterGenerateTestData(Model("challenger", provider), dev)
    /\ UNCHANGED <<sel_vars, m_vars, v_vars, cli_vars, b_vars, e_vars>>

NextSynthesis ==
    \/ GenerateTestDataCall
    \/ G_GenerateQuestion
    \/ G_GenerateAnswer
    \/ G_ModelFails
    \/ G_Return

SpecSynthesis == Init /\ [][NextSynthesis]_vars

\* batch_generate on its own.
NextBatch ==
    \/ BatchGenerateCall
    \/ B_Generate
    \/ B_ModelFails
    \/ B_Return

SpecBatch == Init /\ [][NextBatch]_vars

\* extract() called on the bucket, for every listing of up to MaxObjects keys.
ExtractCall ==
    /\ e_pc = "idle"
    /\ \E listing \in Listings(StoreKeys, MaxObjects) : EnterExtract(listing)
    /\ UNCHANGED <<sel_vars, g_vars, m_vars, v_vars, cli_vars, b_vars>>

ExtractRead == E_ReadObject(StoreContent)

ExtractParseFails == E_ParseFails(StoreContent)

NextExtract ==
    \/ ExtractCall
    \/ E_NextPage
    \/ E_ListFails
    \/ E_SkipObject
    \/ ExtractRead
    \/ E_ReadFails
    \/ ExtractParseFails
    \/ E_EndPage
    \/ E_Return

SpecExtract == Init /\ [][NextExtract]_vars

\* The pipeline of cli.py, as a library user with a challenger of their own
\* runs it: build the validator, extract() the development data, validate() it.
PipelineConstruct ==
    /\ e_pc = "idle"
    /\ b_pc = "idle"
    /\ V_Construct(Model("original", "bedrock"), Model("challenger", "azure"), TagQa)

PipelineExtract ==
    /\ e_pc = "idle"
    /\ validator = "constructed"
    /\ \E listing \in Listings(PipelineKeys, MaxObjects) : EnterExtract(listing)
    /\ UNCHANGED <<sel_vars, g_vars, m_vars, v_vars, cli_vars, b_vars>>

PipelineValidate ==
    /\ e_pc = "returned"
    /\ \E metrics \in {<<"faithfulness">>, <<"bogus">>} :
          /\ Len(e_out) * Len(metrics) <= MaxEvals
          /\ V_Validate(e_out, metrics)

NextPipeline ==
    \/ PipelineConstruct
    \/ PipelineExtract
    \/ E_NextPage
    \/ E_ListFails
    \/ E_SkipObject
    \/ ExtractRead
    \/ E_ReadFails
    \/ E_EndPage
    \/ E_Return
    \/ PipelineValidate
    \/ G_GenerateQuestion
    \/ G_GenerateAnswer
    \/ G_ModelFails
    \/ G_Return
    \/ V_ScoreOriginal
    \/ V_ScoreChallenger
    \/ V_Compare
    \/ V_Propagate
    \/ CM_SkipUnknown
    \/ CM_StartCalculator
    \/ CM_ScoreItem
    \/ CM_ModelFails
    \/ CM_FinishCalculator
    \/ CM_Return

SpecPipeline == Init /\ [][NextPipeline]_vars

\* ================================================================== claims
Names(metrics) == {metrics[j] : j \in DOMAIN metrics}

HasUnknown(metrics) == \E j \in DOMAIN metrics : metrics[j] \notin Registry

\* C1: in a validate() call the challenger's generate_test_data is the first
\* call and the only one of its kind; scoring starts only after it returned;
\* the original model is scored before the challenger; both calculate_metrics
\* calls get the sequence generate_test_data returned and the same metric list.
C1_OneSynthesisSharedTestSet ==
    /\ Len(calls) <= 3
    /\ \A j \in DOMAIN calls : (calls[j].call = "generate_test_data") <=> (j = 1)
    /\ v_pc # "idle" =>
          /\ calls # <<>>
          /\ calls[1].model = v_challenger
          /\ calls[1].data = v_dev
    /\ m_pc # "idle" => g_pc = "returned" /\ Len(calls) >= 2
    /\ Len(calls) >= 2 =>
          /\ calls[2].model = v_original
          /\ calls[2].data = g_out
          /\ calls[2].metrics = v_metrics
    /\ Len(calls) >= 3 =>
          /\ calls[3].model = v_challenger
          /\ calls[3].data = calls[2].data
          /\ calls[3].metrics = calls[2].metrics
    /\ v_pc = "score_original" =>
          Len(calls) = 2 /\ m_model = v_original /\ m_data = g_out
    /\ v_pc = "score_challenger" =>
          /\ Len(calls) = 3
          /\ m_model = v_challenger
          /\ m_data = g_out
          /\ m_metrics = v_metrics
    /\ v_pc = "returned" => Len(calls) = 3

\* C1 witness: a validate() call that returned after scoring both models on two
\* synthetic items.
C1_Witness ==
    /\ v_pc = "returned"
    /\ Len(test_data) = 2
    /\ Len(calls) = 3
    /\ test_data[1].question # test_data[2].question

\* C2: validate() called with a metric list that holds an unregistered name
\* and whose models and scores give no other fault returns a ValidationResults
\* over the registered names.
C2_UnknownMetricYieldsPartialResult ==
    (/\ v_pc \in {"returned", "raised"}
     /\ HasUnknown(v_metrics)
     /\ v_error \notin {"ProviderError", "ZeroDivisionError"})
    => /\ v_pc = "returned"
       /\ DOMAIN comparison_metrics = Names(v_metrics) \cap Registry

\* C3: calculate_metrics raises only when a model call raised, never at an
\* unregistered name; every key of its result is registered; when it returns,
\* the keys are the requested names that are registered, and all four
\* registered names when no list was given.
C3_ResultKeysAreRequestedRegistered ==
    /\ m_pc = "raised" =>
          /\ model_calls = scorer_calls + 1
          /\ m_metrics[m_k] \in Registry
    /\ DOMAIN m_results \subseteq Registry
    /\ \A j \in DOMAIN m_skipped : m_skipped[j] \notin DOMAIN m_results
    /\ m_pc = "returned" =>
          IF m_arg = None
          THEN DOMAIN m_results = {"faithfulness", "context_utilization",
                                   "answer_relevancy", "context_recall"}
          ELSE /\ DOMAIN m_results = Names(m_arg) \cap Registry
               /\ Names(m_skipped) = Names(m_arg) \ Registry

\* C3 witness: a call over a non-empty test set returned a partial result: a
\* name was skipped and a registered one was computed.
C3_Witness ==
    /\ m_pc = "returned"
    /\ m_data # <<>>
    /\ m_skipped # <<>>
    /\ DOMAIN m_results # {}

\* C4: generate_test_data (either variant) appends one item per development
\* item, in order; item i carries input i's question, answer and context
\* verbatim ("" for a field the input lacks); on return the lengths agree.
C4_SynthesisIsOneToOne ==
    /\ g_pc \in {"loop", "returned"} => Len(g_out) = g_i - 1
    /\ g_pc = "returned" => Len(g_out) = Len(g_input)
    /\ \A i \in DOMAIN g_out :
          /\ i \in DOMAIN g_input
          /\ \A pair \in {<<"question", "original_question">>,
                           <<"answer", "original_answer">>,
                           <<"context", "context">>} :
                IF pair[1] \in DOMAIN g_input[i]
                THEN g_out[i][pair[2]] = g_input[i][pair[1]]
                ELSE g_out[i][pair[2]] = Str("")

\* C4 witness: the Bedrock variant returned the test set of two different
\* well-formed development examples.
C4_Witness ==
    /\ g_pc = "returned"
    /\ g_model.provider = "bedrock"
    /\ g_input = <<DevExample(2), DevExample(1)>>
    /\ Len(g_out) = 2

\* The credentials argument of the provider that a task's table row names.
RequiredCredentials(task, call) ==
    IF TaskModels(task).provider = "azure" THEN call.azure ELSE call.bedrock

\* Credentials in the documented shape: Azure needs api_key and api_base
\* (api_version has a default), AWS credentials are any non-empty dict.
WellFormed(task, credentials) ==
    /\ Truthy(credentials)
    /\ TaskModels(task).provider = "azure" =>
          {"api_key", "api_base"} \subseteq credentials.keys

\* C5 as stated: a selector built with a tag that is not one of qa,
\* summarization, reasoning raises the unknown-task error from get_best_model
\* and get_benchmark_info, whatever the credentials.
C5_Original ==
    (sel_result.call # "none" /\ sel_given \notin TaskTags)
    => sel_result.out = Raise("ValueError: Unknown task type")

\* C5 amended: a selector built with a tag whose lower-cased form is not one of
\* qa, summarization, reasoning raises the unknown-task error from
\* get_best_model and get_benchmark_info, whatever the credentials, and no
\* provider is constructed.
C5_UnknownTaskAfterLowercasing ==
    (sel_given # None /\ Lower(sel_given) \notin {TagQa, TagSummarization, TagReasoning})
    => /\ constructed = {}
       /\ sel_result.call # "none" =>
             sel_result.out = Raise("ValueError: Unknown task type")

\* C5 witness: get_best_model raised the unknown-task error although both
\* credentials were supplied in full.
C5_Witness ==
    /\ sel_result.call = "get_best_model"
    /\ Lower(sel_given) \notin TaskTags
    /\ sel_result.azure = Credentials({"api_key", "api_base", "api_version"})
    /\ sel_result.bedrock = Credentials({"access_key", "secret_key"})
    /\ sel_result.out.kind = "raise"

\* C6: on a selector for qa, summarization or reasoning, a get_best_model call
\* whose required credentials are absent (None or empty) raises the
\* missing-credentials error and constructs nothing, whatever the other
\* provider's credentials; a call whose required credentials are supplied
\* returns the row's provider variant (azure for qa and reasoning, bedrock for
\* summarization).
C6_CredentialsGateTheProvider ==
    [][(sel_result'.call = "get_best_model" /\ sel_result' # sel_result
        /\ sel_task \in TaskTags)
       => LET required == RequiredCredentials(sel_task, sel_result')
              expected == IF sel_task = TagSummarization THEN "bedrock" ELSE "azure"
          IN  /\ ~Truthy(required) =>
                    /\ sel_result'.out.kind = "raise"
                    /\ sel_result'.out.error \in
                          {"ValueError: Azure credentials required",
                           "ValueError: AWS credentials required"}
                    /\ constructed' = constructed
              /\ WellFormed(sel_task, required) =>
                    /\ sel_result'.out.kind = "return"
                    /\ sel_result'.out.provider = expected
                    /\ constructed' = constructed \cup {expected}]_vars

\* C6 witness: the qa selector raised for absent Azure credentials although
\* Bedrock credentials were supplied, and nothing was constructed.
C6_Witness ==
    /\ sel_task = TagQa
    /\ sel_result.call = "get_best_model"
    /\ ~sel_result.azure.given
    /\ sel_result.bedrock = Credentials({"access_key", "secret_key"})
    /\ sel_result.out = Raise("ValueError: Azure credentials required")
    /\ constructed = {}

C8_ComparisonMath ==
    v_pc = "returned" =>
        /\ DOMAIN comparison_metrics = Names(v_metrics)
        /\ \A m \in DOMAIN comparison_metrics :
              LET o == original_results[m]
                  c == challenger_results[m]
                  e == comparison_metrics[m]
              IN  /\ RAdd(o, e.difference) = c
                  /\ RMul(e.relative_improvement, o) = e.difference
                  /\ (o = <<4, 5>> /\ c = <<22, 25>>) =>
                        /\ e.difference = <<2, 25>>
                        /\ e.relative_improvement = <<1, 10>>

\* C8 witness: validate() returned with faithfulness 0.80 for the original and
\* 0.88 for the challenger.
C8_Witness ==
    /\ v_pc = "returned"
    /\ "faithfulness" \in DOMAIN comparison_metrics
    /\ original_results["faithfulness"] = <<4, 5>>
    /\ challenger_results["faithfulness"] = <<22, 25>>

\* C9: once both models are scored, validate() raises the division fault if
\* some requested metric's original score is exactly 0, and the comparison
\* does not fail if every requested metric has a non-zero original score.
C9_ZeroOriginalIsADivisionFault ==
    (v_pc \in {"returned", "raised"} /\ v_error # "ProviderError") =>
        /\ (\E m \in Names(v_metrics) :
               m \in DOMAIN original_results /\ original_results[m] = Zero)
           => (v_pc = "raised" /\ v_error = "ZeroDivisionError")
        /\ (\A m \in Names(v_metrics) :
               m \in DOMAIN original_results /\ original_results[m] # Zero)
           => v_pc = "returned"

\* C10: the value calculate_metrics stores for a registered metric is the mean
\* of the scores the scorer returned for the items (value * n = sum, one score
\* per item), hence within [0, 1] and between the least and the greatest score;
\* over an empty test set it is 0.0 and no model or scorer call is made.
C10_ScoreIsMeanOfItemScores ==
    /\ \A m \in DOMAIN m_results :
          RLeq(Zero, m_results[m]) /\ RLeq(m_results[m], <<1, 1>>)
    /\ m_data = <<>> =>
          /\ model_calls = 0
          /\ scorer_calls = 0
          /\ \A m \in DOMAIN m_results : m_results[m] = Zero
    /\ (m_pc \in {"metric", "returned"} /\ m_k > 1 /\ m_metrics[m_k - 1] \in Registry) =>
          LET value == m_results[m_metrics[m_k - 1]] IN
          /\ Len(m_scores) = Len(m_data)
          /\ RMul(value, <<Len(m_data), 1>>) = RSum(m_scores)
          /\ \A j \in DOMAIN m_scores : m_scores[j] \in ScoreVals
          /\ m_scores # <<>> =>
                /\ \E j \in DOMAIN m_scores : RLeq(m_scores[j], value)
                /\ \E j \in DOMAIN m_scores : RLeq(value, m_scores[j])

\* C10 witness: context_recall over two items scored 0.80 and 0.88 came out as
\* 0.84.
C10_Witness ==
    /\ m_pc = "returned"
    /\ m_scores = << <<4, 5>>, <<22, 25>> >>
    /\ "context_recall" \in DOMAIN m_results
    /\ m_metrics[m_k - 1] = "context_recall"
    /\ m_results["context_recall"] = <<21, 25>>

\* C11: batch_generate (either variant), when it returns, has called
\* generate_response once per prompt, in input order, call i with prompts[i]
\* and contexts[i] (an absent context when contexts was omitted), and returns
\* one response per prompt, the i-th being what call i returned; for any
\* supplied contexts list.
C11_BatchIsOnePerPrompt ==
    b_pc = "returned" =>
        /\ Len(b_result.value) = Len(b_prompts)
        /\ Len(b_log) = Len(b_prompts)
        /\ \A i \in DOMAIN b_prompts :
              /\ b_log[i].request.prompt = b_prompts[i]
              /\ b_log[i].request.context =
                    (IF b_arg.given THEN b_arg.list[i] ELSE None)
              /\ b_result.value[i] = b_log[i].response

\* What holds in every state once a model invocation of validate() failed:
\* nothing after the failed step has run and no result exists.
C12_State ==
    /\ g_pc = "raised" =>
          /\ v_pc \in {"synthesis", "raised"}
          /\ m_pc = "idle"
          /\ Len(calls) = 1
          /\ test_data = <<>>
    /\ (m_pc = "raised" /\ Len(calls) = 2) =>
          /\ v_pc \in {"score_original", "raised"}
          /\ m_model = v_original
          /\ original_results = EmptyDict
    /\ (m_pc = "raised" /\ Len(calls) = 3) =>
          /\ v_pc \in {"score_challenger", "raised"}
          /\ m_model = v_challenger
    /\ (g_pc = "raised" \/ m_pc = "raised") =>
          /\ v_pc # "returned"
          /\ challenger_results = EmptyDict
          /\ comparison_metrics = EmptyDict
    /\ (v_pc = "raised" /\ v_error = "ProviderError") =>
          (g_pc = "raised" \/ m_pc = "raised")
    /\ b_pc = "raised" =>
          /\ b_result = [kind |-> "raise", value |-> <<>>]
          /\ Len(b_responses) < Len(b_prompts)

\* What every step does once a model invocation failed: validate() raises the
\* failure as its next step, the failed frame is never resumed, no model is
\* invoked again and no call is added.
C12_Step ==
    /\ ((g_pc = "raised" \/ m_pc = "raised") /\ v_pc # "raised") =>
          /\ v_pc' = "raised"
          /\ v_error' = "ProviderError"
    /\ (g_pc = "raised" \/ m_pc = "raised") =>
          /\ UNCHANGED <<g_vars, m_vars, b_vars>>
          /\ UNCHANGED <<calls, test_data, original_results, challenger_results,
                         comparison_metrics>>
    /\ b_pc = "raised" => UNCHANGED b_vars

\* C12: validate() has no retry and no partial-result recovery: a model
\* invocation that fails during synthesis, original scoring or challenger
\* scoring is raised to the caller, no later step runs, no ValidationResults
\* is produced and the failed call is not issued again; a failure on one item
\* of batch_generate ends the batch without a result.
C12_FailuresPropagateNoRetry == []C12_State /\ [][C12_Step]_vars

\* C12 witness: the first item of a two-item run was scored, the model call
\* for the second item failed while the original model was being scored, and
\* validate() raised.
C12_Witness ==
    /\ v_pc = "raised"
    /\ v_error = "ProviderError"
    /\ m_pc = "raised"
    /\ Len(calls) = 2
    /\ Len(m_data) = 2
    /\ Len(m_scores) = 1
    /\ original_results = EmptyDict

\* The keys a listing names.
ListedKeys(listing) ==
    UNION {{listing[p].contents[j] : j \in DOMAIN listing[p].contents}
           : p \in DOMAIN listing}

\* The records stored under each key of the bucket whose name ends in .json
\* (x.json holds none: it is not JSON); no records for any other key.
StoredRecords(key) ==
    CASE key = <<"a", ".", "j", "s", "o", "n">> -> <<DevExample(1)>>
      [] key = <<"b", ".", "j", "s", "o", "n">> -> <<DevExample(2), DevExample(1)>>
      [] key = <<"m", ".", "j", "s", "o", "n">> -> <<RecordWithoutQuestion>>
      [] OTHER -> <<>>

\* The records of a set of keys, in some order.
RECURSIVE RecordsUnder(_)
RecordsUnder(keys) ==
    IF keys = {} THEN <<>>
    ELSE LET key == CHOOSE k \in keys : TRUE
         IN  StoredRecords(key) \o RecordsUnder(keys \ {key})

Count(seq, r) == Cardinality({j \in DOMAIN seq : seq[j] = r})

\* Two sequences hold the same records the same number of times.
SameMultiset(s, t) ==
    /\ Len(s) = Len(t)
    /\ \A j \in DOMAIN s : Count(s, s[j]) = Count(t, s[j])

\* C13: extract() reads only keys that end in .json, each at most once;
\* when it returns after a listing and reads that all succeeded, the returned
\* sequence holds exactly the records of the listed .json objects (one for a
\* single record, k for a list of k), as a multiset that depends only on the
\* set of keys, not on their order or pages; a.json (one record), b.json (a
\* list of two) and n.txt yield three records.
C13_ExtractIsTheJsonObjectsRecords ==
    /\ \A j \in DOMAIN e_reads :
          /\ e_reads[j] \in {KeyA, KeyB, KeyM, KeyX}
          /\ e_reads[j] \in ListedKeys(e_listing)
          /\ \A i \in DOMAIN e_reads : e_reads[i] = e_reads[j] => i = j
    /\ (e_pc = "returned" /\ e_failed = {} /\ ~e_list_failed) =>
          /\ SameMultiset(e_out, RecordsUnder(ListedKeys(e_listing)))
          /\ ListedKeys(e_listing) = {KeyA, KeyB, KeyN} =>
                /\ Len(e_out) = 3
                /\ Count(e_out, DevExample(1)) = 2
                /\ Count(e_out, DevExample(2)) = 1

\* C13 witness: extract() returned three records for a.json, b.json and n.txt,
\* listed with the list object first and the single-record object on a second
\* page.
C13_Witness ==
    /\ e_pc = "returned"
    /\ e_failed = {}
    /\ ~e_list_failed
    /\ e_listing = <<Page(<<KeyB, KeyN>>), Page(<<KeyA>>)>>
    /\ e_out = <<DevExample(2), DevExample(1), DevExample(1)>>

\* C14: when extract() returns after a complete listing, a .json object whose
\* read failed contributes nothing: the returned sequence holds exactly the
\* records of the objects read successfully (its length is the sum of their
\* record counts), and every listed .json object was read.
C14_FailedReadContributesNothing ==
    (e_pc = "returned" /\ ~e_list_failed) =>
        /\ \A key \in ListedKeys(e_listing) \cap {KeyA, KeyB, KeyM, KeyX} :
              \E j \in DOMAIN e_reads : e_reads[j] = key
        /\ Len(e_out) = Len(RecordsUnder(ListedKeys(e_listing) \ e_failed))
        /\ SameMultiset(e_out, RecordsUnder(ListedKeys(e_listing) \ e_failed))

\* C15: in the pipeline extract() -> validate() -> generate_test_data, every
\* record the challenger has issued a generation call for has the fields
\* context, question and answer, each a string (it passes the check of
\* validate_data_format).
C15_OnlyValidatedRecordsAreSynthesized ==
    (e_pc = "returned" /\ v_pc # "idle") =>
        \A i \in DOMAIN g_input :
            (i < g_i \/ (i = g_i /\ g_pc = "answer")) =>
                ValidateDataFormat(<<g_input[i]>>)

\* C16: generate_test_data (either variant) issues its generation calls in the
\* order question(1), answer(1), question(2), answer(2), ...: two per item
\* already finished, one more while an item's answer is pending, 2 * n when
\* it returns; call 2i-1 is the question prompt of input i, call 2i the answer
\* prompt seeded with the question stored for item i.
C16_TwoChainedCallsPerItem ==
    /\ g_pc \in {"loop", "returned"} => Len(g_log) = 2 * (g_i - 1)
    /\ g_pc = "answer" =>
          /\ Len(g_log) = 2 * (g_i - 1) + 1
          /\ g_question # None
    /\ g_pc = "returned" =>
          /\ Len(g_log) = 2 * Len(g_input)
          /\ Len(g_out) = Len(g_input)
    /\ \A j \in DOMAIN g_log :
          LET i == (j + 1) \div 2 IN
          /\ i \in DOMAIN g_input
          /\ g_log[j].transport =
                (IF g_model.provider = "azure" THEN "chat_messages" ELSE "text_block")
          /\ IF j % 2 = 1
             THEN /\ g_log[j].prompt.template = "generate_question"
                  /\ g_log[j].prompt.seed = Get(g_input[i], "question")
                  /\ g_log[j].prompt.context = Get(g_input[i], "context")
             ELSE /\ g_log[j].prompt.template = "answer_question"
                  /\ i \in DOMAIN g_out
                  /\ g_log[j].prompt.seed = g_out[i].question
                  /\ g_log[j].prompt.seed \in {Str(r) : r \in Responses}
                  /\ g_log[j].prompt.context = Get(g_input[i], "context")

\* C16 witness: the Azure variant returned after four calls for two examples,
\* whose generated questions differ.
C16_Witness ==
    /\ g_pc = "returned"
    /\ g_model.provider = "azure"
    /\ g_input = <<DevExample(1), DevExample(2)>>
    /\ Len(g_log) = 4
    /\ g_log[2].prompt.seed = Str("gen_b")
    /\ g_log[4].prompt.seed = Str("gen_a")

\* C17: validate() on an empty development-data sequence with a metric list
\* that holds a registered name never returns: the test set is empty, every
\* original score is 0.0 and the comparison raises the division fault.
C17_EmptyDevDataIsADivisionFault ==
    (/\ v_pc \in {"returned", "raised"}
     /\ v_dev = <<>>
     /\ Names(v_metrics) \cap Registry # {})
    => /\ v_pc = "raised"
       /\ v_error = "ZeroDivisionError"
       /\ test_data = <<>>
       /\ \A m \in DOMAIN original_results : original_results[m] = Zero

====
